---------------------------- MODULE Spec2Model ----------------------------
(***************************************************************************)
(* A model of script.js: the AudioController (microphone sensor) and the   *)
(* Game (lifecycle, physics step, frame loop) of the paper airplane game.  *)
(*                                                                         *)
(* Numbers.  The program computes in IEEE doubles.  The model computes in  *)
(* fixed point: every real quantity q is held as the integer q * S, and a  *)
(* product or quotient is rounded to the nearest unit (Mul, Div).          *)
(* Wind force, velocities, positions, angles (radians), distances and      *)
(* particle lives are all in units of 1/S.                                 *)
(***************************************************************************)
EXTENDS Integers, Sequences, FiniteSets, Bags, TLC

VARIABLES
    isListening,        \* AudioController.isListening
    dataArray,          \* AudioController.dataArray: the bytes, << >> while null
    volume,             \* the value the last getVolume call returned, Null if none
    alertShown,         \* init has shown its alert
    audioContext,       \* AudioController.audioContext is set (not null)
    pendingInit,        \* number of init() calls suspended at the await
    state,              \* Game.state: "START", "PLAYING", "END"
    width, height,      \* Game.width, Game.height (pixels, not scaled)
    airplane,           \* Game.airplane: [x, y, vx, vy, angle]
    camera,             \* Game.camera.x
    clouds,             \* Game.clouds: sequence of [x, y, width, speed]
    particles,          \* Game.particles: sequence of [x, y, vx, vy, life]
    distance,           \* Game.distance
    lastTime,           \* Game.lastTime
    highScore,          \* Game.highScore
    stored,             \* localStorage['paperWingsHighScore'], Null if absent
    hasStartedBlowing,  \* Game.hasStartedBlowing (undefined reads as FALSE)
    canBlow,            \* Game.canBlow (undefined reads as FALSE)
    rafPending,         \* number of loop callbacks requested and not yet run
    now,                \* the clock, in frame ticks (performance.now / timestamp)
    ui,                 \* the DOM elements the game writes
    drawCount,          \* number of frames draw() has rendered on the canvas
    resizes             \* number of resize events so far

vars == << isListening, dataArray, volume, alertShown, audioContext, pendingInit, state, width, height,
           airplane, camera, clouds, particles, distance, lastTime, highScore,
           stored, hasStartedBlowing, canBlow, rafPending, now, ui, drawCount, resizes >>

audioVars == << isListening, audioContext >>
readVars  == << dataArray, volume, alertShown >>
simVars   == << airplane, camera, clouds, particles, distance, hasStartedBlowing, canBlow >>

-----------------------------------------------------------------------------
(* Bounds of the model *)

\* the clock stops the frame loop of the model after this many frame callbacks
MaxTime == 2
\* at most this many init() calls are suspended at once
MaxPendingInit == 1
\* at most this many loop callbacks are pending at once
MaxPending == 2
\* the window is resized at most this many times
MaxResizes == 1
\* in a flight the player blows only in the first frames of the clock
MaxBlowFrames == 20
\* the clock stops the frame loop of a flight after this many frame callbacks
MaxFlightTime == 100

-----------------------------------------------------------------------------
(* Fixed point *)

S == 10 * 100

Abs(a) == IF a < 0 THEN -a ELSE a
Min(a, b) == IF a < b THEN a ELSE b
Max(a, b) == IF a > b THEN a ELSE b

\* n / d rounded to the nearest integer (d > 0), halves upwards
RoundDiv(n, d) == (2 * n + d) \div (2 * d)
\* the product and the quotient of two scaled numbers, scaled
Mul(a, b) == RoundDiv(a * b, S)
Div(a, b) == RoundDiv(a * S, b)

\* Math.atan2(y, x) in scaled radians.  On the first octant atan(z) is
\* z * (pi/4 + 0.273 * (1 - z)); the other octants follow by symmetry.
PI == 3142
HALF_PI == 1571
QUARTER_PI == 785
AtanUnit(z) == Mul(z, QUARTER_PI + Mul(273, S - z))
Atan2Pos(ay, ax) ==
    IF ax = 0 /\ ay = 0 THEN 0
    ELSE IF ax >= ay THEN AtanUnit(Div(ay, ax))
    ELSE HALF_PI - AtanUnit(Div(ax, ay))
Atan2(y, x) ==
    LET a == Atan2Pos(Abs(y), Abs(x))
        b == IF x < 0 THEN PI - a ELSE a
    IN  IF y < 0 THEN -b ELSE b

\* Number.prototype.toFixed(1): the number of tenths, halves upwards
ToFixed1(d) == RoundDiv(d, S \div 10)

-----------------------------------------------------------------------------
(* Inputs *)

\* window.innerWidth x window.innerHeight
Viewports == { <<200, 0>>, <<800, 600>> }

\* the sums of the 128 byte magnitudes the analyser may deliver: means of
\* 40 and 50, that is wind forces 0.60 (the threshold itself) and 0.80;
\* a sensor that is not listening gives wind force 0
FrequencyBinCount == 128
ByteSums == { 5120, 6400 }
\* the buffers with these sums: every bin holds the mean
Buffers == { [ i \in 1..FrequencyBinCount |-> sum \div FrequencyBinCount ] : sum \in ByteSums }

\* the buffers getVolume is checked on: the first k bins hold one byte, the
\* others another, the bytes taken around the noise floor (mean 10) and the
\* saturation point (mean 60) and at both ends of the byte range
SensorBytes == { 0, 10, 11, 59, 60, 255 }
SensorSplits == { 1, 64 }
SensorBuffers ==
    { [ i \in 1..FrequencyBinCount |-> IF i <= k THEN a ELSE b ] :
        k \in SensorSplits, a \in SensorBytes, b \in SensorBytes }

\* the buffers of a flight: every bin at 255 (wind force 1, a blow) or every
\* bin at 40 (wind force 0.60, the loudest reading that is no blow)
LoudBuffer == [ i \in 1..FrequencyBinCount |-> 255 ]
QuietBuffer == [ i \in 1..FrequencyBinCount |-> 40 ]
FlightBuffers == { LoudBuffer, QuietBuffer }

\* Math.random(): the k-th call made by a handler returns Rnd(seed, k),
\* a value in [0, 1) scaled; the seed is drawn per handler
Seeds == { 100, 510 }
Rnd(seed, k) == (seed + 377 * k) % S
\* the seeds of a flight: free in the frames of a resting airplane while no
\* particle exists; in every other frame the seed with which a blow emits
\* one, so that particles pile up fastest
FlightSeeds(pt, latched) ==
    IF pt = << >> /\ ~latched THEN Seeds ELSE { s \in Seeds : s > 500 }

\* what localStorage holds at page load
Null == -1
StoredAtLoad == { Null, 50 }


-----------------------------------------------------------------------------
(* AudioController *)

\* lines 31-34: the sum of the bytes of the buffer
\* (the sum of the entries is the size of the bag holding index i
\* buf[i] times)
SumBytes(buf) ==
    BagCardinality([ i \in { j \in DOMAIN buf : buf[j] > 0 } |-> buf[i] ])

\* a getVolume without the noise floor of 10
GetVolumeNoFloor(listening, sum) ==
    IF ~listening THEN 0
    ELSE LET average == RoundDiv(sum * S, FrequencyBinCount)
         IN  Min(Max(RoundDiv(average, 50), 0), S)

\* getVolume, given the sum of the bytes getByteFrequencyData delivered
GetVolume(listening, sum) ==
    IF ~listening THEN 0
    ELSE LET average == RoundDiv(sum * S, FrequencyBinCount)
         IN  Min(Max(RoundDiv(average - 10 * S, 50), 0), S)

-----------------------------------------------------------------------------
(* Game: constants of update *)

GRAVITY == 750
LIFT == 500
DRAG == 980
BOOST == 1200
GLIDE_LIFT == 20
BLOW_THRESHOLD == 600
TERMINAL_VY == 10
TERMINAL_VX == 20
GROUND_MARGIN == 150
START_X == 100
METER == 50
PARTICLE_DECAY == 50
CLOUD_TARGET == 15
INITIAL_CLOUDS == 10

\* this.height * 0.6, this.height * 0.2 and this.width * 0.3, scaled
StandHeight(h) == Mul(h * S, 600)
CeilingY(h) == Mul(h * S, 200)
GroundY(h) == (h - GROUND_MARGIN) * S
\* a stand measured downwards from the ground line
StandBelowGround(h) == GroundY(h) + StandHeight(h)
StandY(h) == GroundY(h) - StandHeight(h)

-----------------------------------------------------------------------------
(* Game: pieces of update *)

\* line 160: the blow test
Blowing(windForce) == windForce > BLOW_THRESHOLD

\* a latch that follows the current wind reading
LatchFollowsWind(latched, windForce) == Blowing(windForce)

\* line 161: the latch after the blow test
Latch(latched, windForce) == latched \/ Blowing(windForce)

\* a velocity without gravity
VelocityNoGravity(a, latched, windForce) ==
    LET blow == Blowing(windForce)
        vx1 == IF blow THEN a.vx + Mul(windForce, BOOST) ELSE a.vx
        vy1 == IF blow THEN a.vy - Mul(windForce, LIFT) ELSE a.vy
        vy2 == vy1 - Mul(Abs(vx1), GLIDE_LIFT)
        held == ~Latch(latched, windForce)
        vx3 == IF held THEN 0 ELSE vx1
        vy3 == IF held THEN 0 ELSE vy2
    IN  [ vx |-> Min(Mul(vx3, DRAG), TERMINAL_VX * S),
          vy |-> Min(Mul(vy3, DRAG), TERMINAL_VY * S) ]

\* a velocity whose blow pushes the airplane backwards
VelocityHeadwind(a, latched, windForce) ==
    LET blow == Blowing(windForce)
        vx1 == IF blow THEN a.vx - Mul(windForce, BOOST) ELSE a.vx
        vy1 == IF blow THEN a.vy - Mul(windForce, LIFT) ELSE a.vy
        vy2 == vy1 - Mul(Abs(vx1), GLIDE_LIFT)
        held == ~Latch(latched, windForce)
        vx3 == IF held THEN 0 ELSE vx1
        vy3 == IF held THEN 0 ELSE vy2 + GRAVITY
    IN  [ vx |-> Min(Mul(vx3, DRAG), TERMINAL_VX * S),
          vy |-> Min(Mul(vy3, DRAG), TERMINAL_VY * S) ]

\* lines 160-198: the velocity after forces, hold, drag and terminal velocity
Velocity(a, latched, windForce) ==
    LET blow == Blowing(windForce)
        vx1 == IF blow THEN a.vx + Mul(windForce, BOOST) ELSE a.vx
        vy1 == IF blow THEN a.vy - Mul(windForce, LIFT) ELSE a.vy
        vy2 == vy1 - Mul(Abs(vx1), GLIDE_LIFT)
        held == ~Latch(latched, windForce)
        vx3 == IF held THEN 0 ELSE vx1
        vy3 == IF held THEN 0 ELSE vy2 + GRAVITY
    IN  [ vx |-> Min(Mul(vx3, DRAG), TERMINAL_VX * S),
          vy |-> Min(Mul(vy3, DRAG), TERMINAL_VY * S) ]

\* an integration that moves a launched airplane only horizontally
IntegrateLevel(a, latched, windForce, h) ==
    LET v == Velocity(a, latched, windForce)
    IN  [ x |-> a.x + v.vx,
          y |-> IF Latch(latched, windForce) THEN a.y ELSE StandY(h),
          vx |-> v.vx, vy |-> v.vy ]

\* lines 181-202: the position after the hold and the integration
Integrate(a, latched, windForce, h) ==
    LET v == Velocity(a, latched, windForce)
        y0 == IF Latch(latched, windForce) THEN a.y ELSE StandY(h)
    IN  [ x |-> a.x + v.vx, y |-> y0 + v.vy, vx |-> v.vx, vy |-> v.vy ]

\* lines 206-207: the smoothed angle
Angle(angle, vy, vx) == angle + Mul(Atan2(vy, vx) - angle, 100)

\* line 210
Distance(x) == Max(0, RoundDiv(x - START_X * S, METER))

\* a camera that follows the airplane without the lower limit
CameraUnclamped(x, w) == x - Mul(w * S, 300)

\* lines 214-215
CameraX(x, w) == Max(0, x - Mul(w * S, 300))

\* a ground test with the margin added to the height
CrashedBelowPage(y, h) == y > (h + GROUND_MARGIN) * S

\* a ground test that also fires on touching the ground line
CrashedOrTouching(y, h) == y >= GroundY(h)

\* line 218: the ground test
Crashed(y, h) == y > GroundY(h)

\* line 224: the ceiling test
AboveCeiling(y, h) == y < CeilingY(h)

\* a ceiling check that clamps y and leaves the velocity alone
CeilingKeepsVelocity(y, vy, h) ==
    IF AboveCeiling(y, h) THEN [ y |-> CeilingY(h), vy |-> vy ]
    ELSE [ y |-> y, vy |-> vy ]

\* lines 224-227: y and velocity.y after the ceiling check
Ceiling(y, vy, h) ==
    IF AboveCeiling(y, h) THEN [ y |-> CeilingY(h), vy |-> Mul(vy, 500) ]
    ELSE [ y |-> y, vy |-> vy ]

\* lines 100-107: spawnCloud; the calls k, k+1, k+2 of Math.random
SpawnCloud(xOffset, cam, h, seed, k) ==
    [ x |-> xOffset + cam,
      y |-> Mul(Rnd(seed, k), StandHeight(h)),
      width |-> 100 * S + Mul(Rnd(seed, k + 1), 150 * S),
      speed |-> 200 + Mul(Rnd(seed, k + 2), 500) ]

\* lines 166-174: the particle emitted behind the airplane; calls k, k+1, k+2
NewParticle(a, seed, k) ==
    [ x |-> a.x - 20 * S,
      y |-> a.y + Mul(Rnd(seed, k) - 500, 20 * S),
      vx |-> -2 * S - Mul(Rnd(seed, k + 1), 2 * S),
      vy |-> Mul(Rnd(seed, k + 2) - 500, S),
      life |-> S ]

\* line 166
EmitsParticle(r) == r > 500

\* line 232
SpawnsCloud(r) == r < 50

\* lines 237-240
KeepCloud(c, cam) == (c.x - Mul(cam, 500)) + c.width > -100 * S

\* a particle step that forgets the decay
MoveParticleNoDecay(p) ==
    [ p EXCEPT !.x = p.x + p.vx, !.y = p.y + p.vy ]

\* lines 243-247
MoveParticle(p) ==
    [ p EXCEPT !.x = p.x + p.vx, !.y = p.y + p.vy, !.life = p.life - PARTICLE_DECAY ]

\* line 248
KeepParticle(p) == p.life > 0

\* lines 231-240: the clouds after spawning and removal; the Math.random
\* calls of this part start at call k
Clouds(cl, cam, w, h, seed, k) ==
    LET wants == Len(cl) < CLOUD_TARGET \/ cl[Len(cl)].x < cam + w * S
        spawned ==
            IF wants /\ SpawnsCloud(Rnd(seed, k))
            THEN Append(cl, SpawnCloud(cam + w * S + Mul(Rnd(seed, k + 1), 200 * S),
                                       cam, h, seed, k + 2))
            ELSE cl
        Keep(c) == KeepCloud(c, cam)
    IN  SelectSeq(spawned, Keep)

\* lines 243-248
Particles(pt) ==
    LET moved == [ i \in 1..Len(pt) |-> MoveParticle(pt[i]) ]
    IN  SelectSeq(moved, KeepParticle)

\* lines 144-249: update in state PLAYING.  The result holds the fields the
\* step assigns and whether endGame was called.
Update(a, latched, cam, cl, pt, w, h, windForce, seed) ==
    LET blow == Blowing(windForce)
        emit == blow /\ EmitsParticle(Rnd(seed, 0))
        k == IF blow THEN (IF emit THEN 4 ELSE 1) ELSE 0
        pt1 == IF emit THEN Append(pt, NewParticle(a, seed, 1)) ELSE pt
        p == Integrate(a, latched, windForce, h)
        c == Ceiling(p.y, p.vy, h)
        cam1 == CameraX(p.x, w)
    IN  [ airplane |-> [ x |-> p.x, y |-> c.y, vx |-> p.vx, vy |-> c.vy,
                         angle |-> Angle(a.angle, p.vy, p.vx) ],
          hasStartedBlowing |-> Latch(latched, windForce),
          distance |-> Distance(p.x),
          camera |-> cam1,
          crashed |-> Crashed(p.y, h),
          clouds |-> Clouds(cl, cam1, w, h, seed, k),
          particles |-> Particles(pt1) ]

-----------------------------------------------------------------------------
(* Game: construction *)

\* the seed of the Math.random calls the constructor makes
LoadSeed == 123

\* lines 74-76: the i-th initial cloud (i from 0); each takes four calls
InitialCloud(i, w, h) ==
    SpawnCloud(Mul(Rnd(LoadSeed, 4 * i), w * S), 0, h, LoadSeed, 4 * i + 1)

\* line 65: localStorage.getItem('paperWingsHighScore') || 0
LoadHighScore(item) == IF item = Null THEN 0 ELSE item

\* the page as loaded, before the game writes to it
InitialUI ==
    [ startScreen |-> TRUE, gameOverScreen |-> FALSE, hud |-> FALSE,
      distanceDisplay |-> Null, finalDistance |-> Null, windBar |-> Null ]

Init ==
    /\ isListening = FALSE
    /\ dataArray = << >>
    /\ volume = Null
    /\ alertShown = FALSE
    /\ audioContext = FALSE
    /\ pendingInit = 0
    /\ state = "START"
    /\ \E vp \in Viewports : width = vp[1] /\ height = vp[2]
    /\ airplane = [ x |-> START_X * S, y |-> RoundDiv(height * S, 2),
                    vx |-> 0, vy |-> 0, angle |-> 0 ]
    /\ camera = 0
    /\ clouds = [ i \in 1..INITIAL_CLOUDS |-> InitialCloud(i - 1, width, height) ]
    /\ particles = << >>
    /\ distance = 0
    /\ lastTime = 0
    /\ stored \in StoredAtLoad
    /\ highScore = LoadHighScore(stored)
    /\ hasStartedBlowing = FALSE
    /\ canBlow = FALSE
    /\ rafPending = 0
    /\ now = 0
    /\ ui = InitialUI
    /\ drawCount = 0
    /\ resizes = 0

-----------------------------------------------------------------------------
(* Game: operations *)

\* a reset that puts the airplane back on the stand and keeps its motion
RestingKeepsMotion(h) ==
    [ airplane EXCEPT !.x = START_X * S, !.y = StandY(h) ]

\* lines 120-134: the airplane after resetPhysics
RestingAirplane(h) ==
    [ x |-> START_X * S, y |-> StandY(h), vx |-> 0, vy |-> 0, angle |-> 0 ]

\* lines 120-134
ResetPhysics ==
    /\ airplane' = RestingAirplane(height)
    /\ distance' = 0
    /\ camera' = 0
    /\ hasStartedBlowing' = FALSE
    /\ canBlow' = TRUE

\* lines 109-118: startGame, given the page it finds
StartGame(page) ==
    /\ state' = "PLAYING"
    /\ ui' = [ page EXCEPT !.startScreen = FALSE, !.gameOverScreen = FALSE, !.hud = TRUE ]
    /\ ResetPhysics
    /\ lastTime' = now
    /\ rafPending' = rafPending + 1

\* a high score test that stores every final distance
AnyScore(d, best) == TRUE

\* line 371: the high score test of endGame
NewHighScore(d, best) == d > best

\* lines 79-84 and 68: the window is resized
Resize ==
    /\ resizes < MaxResizes
    /\ resizes' = resizes + 1
    /\ \E vp \in Viewports :
          /\ << width, height >> # vp
          /\ width' = vp[1]
          /\ height' = vp[2]
    /\ UNCHANGED << readVars, audioVars, pendingInit, state, simVars, lastTime, highScore,
                    stored, rafPending, now, ui, drawCount >>

\* lines 87-88 and 11-13: a click on the start button runs init up to its await
StartClick ==
    /\ pendingInit < MaxPendingInit
    /\ audioContext' = TRUE
    /\ pendingInit' = pendingInit + 1
    /\ UNCHANGED << readVars, isListening, state, width, height, simVars, lastTime, highScore,
                    stored, rafPending, now, ui, drawCount, resizes >>

\* lines 14-20 and 89-91: getUserMedia resolves; init returns true, startGame runs
InitGranted ==
    /\ pendingInit > 0
    /\ rafPending < MaxPending
    /\ pendingInit' = pendingInit - 1
    /\ isListening' = TRUE
    /\ dataArray' = [ i \in 1..FrequencyBinCount |-> 0 ]
    /\ StartGame(ui)
    /\ UNCHANGED << volume, alertShown, audioContext, width, height, clouds, particles, highScore,
                    stored, now, drawCount, resizes >>

\* a denial that sends the game back to the start screen
InitDeniedBackToStart ==
    /\ pendingInit > 0
    /\ pendingInit' = pendingInit - 1
    /\ state' = "START"
    /\ UNCHANGED << readVars, audioVars, width, height, simVars, lastTime, highScore,
                    stored, rafPending, now, ui, drawCount, resizes >>

\* a denial that is not reported
InitDeniedSilent ==
    /\ pendingInit > 0
    /\ pendingInit' = pendingInit - 1
    /\ UNCHANGED << readVars, audioVars, state, width, height, simVars, lastTime,
                    highScore, stored, rafPending, now, ui, drawCount, resizes >>

\* lines 21-25 and 89: getUserMedia rejects; init alerts and returns false
InitDenied ==
    /\ pendingInit > 0
    /\ pendingInit' = pendingInit - 1
    /\ alertShown' = TRUE
    /\ UNCHANGED << dataArray, volume, audioVars, state, width, height, simVars, lastTime, highScore,
                    stored, rafPending, now, ui, drawCount, resizes >>

\* lines 94-97 and 136-139: a click on the restart button
RestartClick ==
    /\ rafPending < MaxPending
    /\ StartGame([ ui EXCEPT !.distanceDisplay = ToFixed1(0) ])
    /\ UNCHANGED << readVars, audioVars, pendingInit, width, height, clouds, particles,
                    highScore, stored, now, drawCount, resizes >>

\* lines 377-378: a frame callback that finds the game not playing
LoopIdle ==
    /\ rafPending > 0
    /\ state # "PLAYING"
    /\ rafPending' = rafPending - 1
    /\ UNCHANGED << readVars, audioVars, pendingInit, state, width, height, simVars, lastTime,
                    highScore, stored, now, ui, drawCount, resizes >>

\* lines 377-388 with update (141-249), endGame (365-375), draw and updateUI:
\* the body of a frame callback that finds the game playing, given the bytes
\* the analyser delivers, the value getVolume returns on them and the random
\* seed of this callback
Frame(buf, windForce, seed) ==
    LET u == Update(airplane, hasStartedBlowing, camera, clouds, particles,
                    width, height, windForce, seed)
        best == NewHighScore(u.distance, highScore)
    IN  /\ dataArray' = IF isListening THEN buf ELSE dataArray
        /\ volume' = windForce
        /\ now' = now + 1
        /\ lastTime' = now + 1
        /\ airplane' = u.airplane
        /\ hasStartedBlowing' = u.hasStartedBlowing
        /\ distance' = u.distance
        /\ camera' = u.camera
        /\ clouds' = u.clouds
        /\ particles' = u.particles
        /\ state' = IF u.crashed THEN "END" ELSE state
        /\ highScore' = IF u.crashed /\ best THEN u.distance ELSE highScore
        /\ stored' = IF u.crashed /\ best THEN u.distance ELSE stored
        /\ ui' = [ ui EXCEPT
                     !.windBar = windForce,
                     !.hud = IF u.crashed THEN FALSE ELSE @,
                     !.gameOverScreen = IF u.crashed THEN TRUE ELSE @,
                     !.finalDistance = IF u.crashed THEN ToFixed1(u.distance) ELSE @,
                     !.distanceDisplay = ToFixed1(u.distance) ]
        /\ drawCount' = drawCount + 1
        /\ rafPending' = rafPending
        /\ UNCHANGED << audioVars, alertShown, pendingInit, width, height,
                        canBlow, resizes >>

\* lines 377-388: a frame callback that finds the game playing
LoopFrame ==
    /\ rafPending > 0
    /\ state = "PLAYING"
    /\ now < MaxTime
    /\ \E buf \in Buffers :
          LET windForce == GetVolume(isListening, SumBytes(buf))
          IN  \E seed \in Seeds : Frame(buf, windForce, seed)

\* lines 28-38: one call of getVolume on its own, the analyser delivering
\* one of SensorBuffers
SensorRead ==
    /\ \E buf \in SensorBuffers :
          /\ dataArray' = IF isListening THEN buf ELSE dataArray
          /\ volume' = GetVolume(isListening, SumBytes(buf))
    /\ UNCHANGED << alertShown, audioVars, pendingInit, state, width, height, simVars,
                    lastTime, highScore, stored, rafPending, now, ui, drawCount,
                    resizes >>

Next ==
    \/ Resize
    \/ StartClick
    \/ InitGranted
    \/ InitDenied
    \/ RestartClick
    \/ LoopIdle
    \/ LoopFrame

Spec == Init /\ [][Next]_vars

\* the sensor on its own: the page as constructed, the start button and the
\* permission prompt, and getVolume called on every buffer of SensorBuffers
SensorNext ==
    \/ StartClick
    \/ InitGranted
    \/ InitDenied
    \/ SensorRead

SensorSpec == Init /\ [][SensorNext]_vars

\* lines 87-88: the one click on the start button of a flight
FlightStart ==
    /\ state = "START"
    /\ pendingInit = 0
    /\ StartClick

\* lines 94-97: a restart click once the run has ended, while the player
\* still blows
FlightRestart ==
    /\ state = "END"
    /\ now < MaxBlowFrames
    /\ RestartClick

\* lines 377-388: a frame callback of a flight.  The player blows from the
\* stand and keeps blowing for some frames, within the first MaxBlowFrames
\* frames of the clock; once the blowing has stopped in a run, or the clock
\* has passed MaxBlowFrames, every reading is 0.60
FlightFrame ==
    /\ rafPending > 0
    /\ state = "PLAYING"
    /\ now < MaxFlightTime
    /\ \E buf \in FlightBuffers :
          LET windForce == GetVolume(isListening, SumBytes(buf))
          IN  /\ Blowing(windForce) =>
                    /\ now < MaxBlowFrames
                    /\ (~hasStartedBlowing \/ volume > BLOW_THRESHOLD)
              /\ ~Blowing(windForce) =>
                    (hasStartedBlowing \/ now >= MaxBlowFrames)
              /\ \E seed \in FlightSeeds(particles, hasStartedBlowing) :
                    Frame(buf, windForce, seed)

\* a flight: one start click, the grant, frames with a fixed viewport, and
\* restart clicks only between runs
FlightNext ==
    \/ FlightStart
    \/ InitGranted
    \/ FlightRestart
    \/ FlightFrame
    \/ LoopIdle

\* a frame callback of a playing game runs: the steps of FlightFrame are the
\* steps that advance the clock, and FlightFrame is enabled exactly when a
\* callback is pending, the game is playing and the clock has not stopped
FrameFires ==
    /\ rafPending > 0
    /\ state = "PLAYING"
    /\ now < MaxFlightTime
    /\ now' = now + 1

\* requestAnimationFrame runs a pending callback: frames keep firing
FlightSpec == Init /\ [][FlightNext]_vars /\ WF_now(FrameFires)

-----------------------------------------------------------------------------
(* Claims *)

\* resetPhysics runs in exactly these handlers
ResetStep == InitGranted \/ RestartClick

\* the wind force the physics step of this step read (written to the wind bar)
WindRead == ui'.windBar

\* the airplane right after the position integration of this step's update
Integrated == Integrate(airplane, hasStartedBlowing, WindRead, height)

\* C1: after every physics step that leaves hasStartedBlowing false, the
\* velocity is (0,0), y is the stand height and the distance is 0
C1_RestingPinned ==
    [][ (LoopFrame /\ ~hasStartedBlowing') =>
            /\ airplane'.vx = 0
            /\ airplane'.vy = 0
            /\ airplane'.y = StandY(height)
            /\ distance' = 0 ]_vars

\* C2: whenever the game is PLAYING the audio sensor is listening
C2_PlayingImpliesListening == state = "PLAYING" => isListening

\* C3: a frame callback requests another frame only if the state is PLAYING
\* at the moment of the request: the frame that detects the crash consumes
\* its own callback and schedules none
C3_NoRescheduleAfterCrash ==
    [][ (LoopFrame /\ state' # "PLAYING") => rafPending' = rafPending - 1 ]_vars

\* C4: from the moment the state becomes END nothing is simulated or drawn
\* until the next startGame: the frame that detects the crash draws nothing,
\* leaves y where the integration put it, and leaves the clouds and the
\* particles that existed alone; no later step in END, and no frame callback
\* outside PLAYING, changes the simulation state or draws
C4_FreezeOnCrash ==
    [][ /\ (LoopFrame /\ state' = "END") =>
               /\ drawCount' = drawCount
               /\ airplane'.y = Integrated.y
               /\ clouds' = clouds
               /\ \A i \in 1..Len(particles) :
                     i <= Len(particles') /\ particles'[i] = particles[i]
        /\ (state = "END" /\ ~ResetStep) => UNCHANGED << simVars, drawCount >>
        /\ LoopIdle => UNCHANGED << simVars, drawCount, state, ui >> ]_vars

\* C5: once hasStartedBlowing is true it stays true until resetPhysics runs;
\* no physics step sets it back to false
C5_LatchMonotone ==
    [][ /\ (hasStartedBlowing /\ ~hasStartedBlowing') => ResetStep
        /\ (LoopFrame /\ hasStartedBlowing) => hasStartedBlowing' ]_vars

\* C5 witness: a physics step read a wind at or below the threshold (0.60)
\* after the latch was set, and the latch is still set
C5_Witness ==
    /\ state = "PLAYING"
    /\ hasStartedBlowing
    /\ ui.windBar = BLOW_THRESHOLD

\* the number localStorage holds (nothing stored counts as 0)
StoredScore(item) == IF item = Null THEN 0 ELSE item

\* C6: the high score and the persisted value change only in a crash step
\* whose distance is strictly greater than the stored high score, and then
\* both become that distance; every such crash step does change them; the
\* stored high score never decreases
C6_HighScore ==
    [][ /\ (highScore' # highScore \/ stored' # stored) =>
               /\ LoopFrame /\ state' = "END"
               /\ distance' > highScore
               /\ highScore' = distance'
               /\ stored' = distance'
        /\ (LoopFrame /\ state' = "END" /\ distance' > highScore) =>
               highScore' = distance' /\ stored' = distance'
        /\ highScore' >= highScore
        /\ StoredScore(stored') >= StoredScore(stored) ]_vars

\* C6 witness: a run ended with a new best distance, now stored
C6_Witness ==
    /\ state = "END"
    /\ distance > 0
    /\ highScore = distance
    /\ stored = distance

\* C7: a physics step ends the game iff y after the integration is strictly
\* greater than height - 150
C7_CrashCondition ==
    [][ LoopFrame => ((state' = "END") <=> (Integrated.y > (height - 150) * S)) ]_vars

\* C7 witness: in a viewport of height 0 the stand is on the ground line; a
\* resting physics step integrated y to exactly height - 150 and the game
\* is still PLAYING (the ceiling check then moved y to 0.2 * height)
C7_Witness ==
    /\ state = "PLAYING"
    /\ ~hasStartedBlowing
    /\ height = 0 /\ resizes = 0
    /\ StandY(height) = (height - 150) * S
    /\ drawCount > 0
    /\ airplane.y = CeilingY(height)
    /\ airplane.y # StandY(height)

\* C8 as first stated: exactly when y after the integration is below
\* 0.2 * height the step clamps y there and halves the vertical velocity,
\* and that step never ends the game; otherwise the check changes nothing;
\* after every physics step y >= 0.2 * height
C8_CeilingNeverCrashes ==
    [][ LoopFrame =>
            /\ Integrated.y < CeilingY(height) =>
                   /\ airplane'.y = CeilingY(height)
                   /\ airplane'.vy = Mul(Integrated.vy, 500)
                   /\ state' = "PLAYING"
            /\ Integrated.y >= CeilingY(height) =>
                   /\ airplane'.y = Integrated.y
                   /\ airplane'.vy = Integrated.vy
            /\ airplane'.y >= CeilingY(height) ]_vars

\* C8 as amended: exactly when y after the integration is below
\* 0.2 * height the step clamps y there and halves the vertical velocity,
\* otherwise the check changes nothing; a clamping step ends the game only
\* when that y is also above the ground line, which needs the ground line
\* above the ceiling (height - 150 < 0.2 * height, height < 187.5); after
\* every physics step y >= 0.2 * height
C8_CeilingClamp ==
    [][ LoopFrame =>
            /\ Integrated.y < CeilingY(height) =>
                   /\ airplane'.y = CeilingY(height)
                   /\ airplane'.vy = Mul(Integrated.vy, 500)
                   /\ (state' = "END") <=> (Integrated.y > (height - 150) * S)
                   /\ (state' = "END") => (2 * height < 375)
            /\ Integrated.y >= CeilingY(height) =>
                   /\ airplane'.y = Integrated.y
                   /\ airplane'.vy = Integrated.vy
            /\ airplane'.y >= CeilingY(height) ]_vars

\* C8 witness: a launched airplane was clamped to the ceiling with its
\* (non-zero) vertical velocity halved, and the game is still PLAYING
C8_Witness ==
    /\ state = "PLAYING"
    /\ hasStartedBlowing
    /\ height = 600
    /\ airplane.y = CeilingY(height)
    /\ airplane.vy # 0

\* C9: after every step distance = max(0, (x - 100) / 50) >= 0; the
\* horizontal velocity is never negative, so x and the distance decrease
\* only when resetPhysics starts a new run
C9_Distance ==
    [][ /\ distance' = Max(0, RoundDiv(airplane'.x - 100 * S, 50))
        /\ distance' >= 0
        /\ airplane'.vx >= 0
        /\ (airplane'.x < airplane.x \/ distance' < distance) => ResetStep
        /\ LoopFrame => (airplane'.x >= airplane.x /\ distance' >= distance) ]_vars

\* C9 witness: two physics steps of one run, the second without wind, and
\* the distance grew in both
C9_Witness ==
    /\ hasStartedBlowing
    /\ ui.windBar # Null /\ ui.windBar <= BLOW_THRESHOLD
    /\ airplane.vx > 0
    /\ distance > Distance(airplane.x - airplane.vx)
    /\ Distance(airplane.x - airplane.vx) > 0

\* C10: the state starts as START; it changes only START -> PLAYING and
\* END -> PLAYING, both through startGame, and PLAYING -> END, through the
\* crash check of a physics step
C10_Lifecycle ==
    /\ state = "START"
    /\ [][ state' # state =>
              \/ state \in { "START", "END" } /\ state' = "PLAYING" /\ ResetStep
              \/ state = "PLAYING" /\ state' = "END" /\ LoopFrame
                   /\ Integrated.y > (height - 150) * S ]_vars

\* C10 witness: the game is PLAYING again after a run that ended
C10_Witness ==
    /\ state = "PLAYING"
    /\ ui.finalDistance # Null
    /\ ~ui.gameOverScreen

\* C11: right after every startGame the state is PLAYING and the run is
\* reset: x = 100, y = height - 150 - 0.6 * height, velocity (0,0), angle 0,
\* distance 0, camera 0, hasStartedBlowing false, canBlow true; the high
\* score is unchanged
C11_RunReset ==
    [][ ResetStep =>
            /\ state' = "PLAYING"
            /\ airplane' = [ x |-> 100 * S,
                             y |-> (height - 150) * S - height * 600,
                             vx |-> 0, vy |-> 0, angle |-> 0 ]
            /\ distance' = 0
            /\ camera' = 0
            /\ ~hasStartedBlowing'
            /\ canBlow'
            /\ highScore' = highScore /\ stored' = stored ]_vars

\* C11 witness: a restart after a run that flew and ended: the airplane is
\* back at rest, the previous run's final distance still on the page
C11_Witness ==
    /\ state = "PLAYING"
    /\ ui.finalDistance # Null /\ ui.finalDistance > 0
    /\ highScore > 0
    /\ airplane = RestingAirplane(height)
    /\ distance = 0 /\ camera = 0
    /\ ~hasStartedBlowing /\ canBlow
    /\ lastTime = now

\* the airplane rests: it is not launched and does not move
Resting == ~hasStartedBlowing /\ airplane.vx = 0 /\ airplane.vy = 0

\* C14 as first stated: from rest at 800x600 one physics step with wind
\* force 0.8 sets the latch, makes the horizontal velocity positive and
\* leaves the vertical velocity lower than before (negative)
C14_FirstBlowRises ==
    [][ (LoopFrame /\ Resting /\ width = 800 /\ height = 600 /\ WindRead = 800) =>
            /\ hasStartedBlowing'
            /\ airplane'.vx > 0
            /\ airplane'.vy < airplane.vy ]_vars

\* C14 as amended: from rest at 800x600 one physics step with wind force
\* 0.8 sets the latch and makes the horizontal velocity positive
\* (0.8 * 1.2 * 0.98 = 0.9408); the vertical velocity becomes positive, that
\* is higher than before and downward, because gravity 0.75 outweighs the
\* lift 0.8 * 0.5 + 0.02 * 0.96: (0.75 - 0.4192) * 0.98 = 0.324, halved to
\* 0.162 when the ceiling check clamps y in the same step
C14_FirstBlow ==
    [][ (LoopFrame /\ Resting /\ width = 800 /\ height = 600 /\ WindRead = 800) =>
            /\ hasStartedBlowing'
            /\ airplane'.vx = 941
            /\ airplane'.vy > airplane.vy
            /\ airplane'.vy = IF Integrated.y < 120 * S THEN 162 ELSE 324 ]_vars

\* C14 witness: the state right after the first blow (0.8) of a run at
\* 800x600
C14_Witness ==
    /\ state = "PLAYING"
    /\ width = 800 /\ height = 600 /\ resizes = 0
    /\ hasStartedBlowing
    /\ ui.windBar = 800
    /\ airplane.x = 100 * S + airplane.vx
    /\ airplane.vx = 941

\* C15 as first stated: a physics step that starts with y > height - 150
\* ends the game
C15_BelowGroundCrashes ==
    [][ (LoopFrame /\ airplane.y > (height - 150) * S) => state' = "END" ]_vars

\* C15 as amended: a physics step that starts with y > height - 150 ends
\* the game if the airplane is launched after the blow test of that step
\* (latch already set, or wind above 0.60) and its vertical velocity after
\* that step's forces is not negative; a resting airplane is put back on
\* the stand and the game goes on.  Once the state is END the distance
\* keeps its value until the next reset.
C15_BelowGround ==
    [][ /\ ( /\ LoopFrame
             /\ airplane.y > (height - 150) * S
             /\ (hasStartedBlowing \/ WindRead > 600)
             /\ Integrated.vy >= 0 ) => state' = "END"
        /\ ( /\ LoopFrame
             /\ airplane.y > (height - 150) * S
             /\ ~(hasStartedBlowing \/ WindRead > 600) ) => state' = "PLAYING"
        /\ (state = "END" /\ distance' # distance) => ResetStep ]_vars

\* C15 witness: the game ended in a viewport of height 0 (ground line -150)
\* with the launched airplane more than 200 below the ground line, where a
\* resize had put it before the step began
C15_Witness ==
    /\ state = "END"
    /\ hasStartedBlowing
    /\ height = 0 /\ resizes = 1
    /\ airplane.y > 50 * S
    /\ airplane.y - airplane.vy > (height - 150) * S

\* C16: at most one loop callback is pending at any time
C16_SingleLoopChain == rafPending <= 1

\* C17: a physics step that leaves hasStartedBlowing false never ends the
\* game, whatever the viewport and its resizes (the stand is never below
\* the ground line); a run ends only in a step whose airplane is launched
C17_NoCrashBeforeLaunch ==
    [][ /\ (LoopFrame /\ ~hasStartedBlowing') => state' = "PLAYING"
        /\ (state = "PLAYING" /\ state' = "END") =>
               (LoopFrame /\ (hasStartedBlowing \/ WindRead > 600))
        /\ (height' - 150) * S - height' * 600 <= (height' - 150) * S ]_vars

\* C17 witness: a resting physics step ran after the viewport was resized
\* to the smallest height and the game is still PLAYING
C17_Witness ==
    /\ state = "PLAYING"
    /\ ~hasStartedBlowing
    /\ resizes = 1 /\ height = 0
    /\ ui.windBar = 600
    /\ airplane.y = CeilingY(height)
    /\ airplane.y # StandY(height)

\* C19: camera.x is never negative; after every physics step it is
\* max(0, airplane.x - 0.3 * width); resetPhysics sets it to 0
C19_Camera ==
    [][ /\ camera >= 0 /\ camera' >= 0
        /\ LoopFrame =>
               camera' = (IF airplane'.x - width * 300 > 0
                          THEN airplane'.x - width * 300 ELSE 0)
        /\ ResetStep => camera' = 0 ]_vars

\* C19 witness: the camera has moved with the airplane in a narrow viewport
C19_Witness ==
    /\ camera > 0
    /\ width = 200
    /\ camera = airplane.x - 60 * S

\* C12: a failed microphone acquisition makes init return false: the sensor
\* does not become active, startGame is not called (game state, simulation
\* and page unchanged, no frame callback scheduled) and the failure is
\* reported by an alert; nothing retries by itself: an init call begins
\* only with a click on the start button, and the sensor becomes active
\* only by a grant, which starts the game
C12_FailedInit ==
    [][ /\ InitDenied =>
               /\ alertShown'
               /\ isListening' = isListening /\ dataArray' = dataArray
               /\ state' = state /\ ui' = ui /\ lastTime' = lastTime
               /\ airplane' = airplane /\ distance' = distance /\ camera' = camera
               /\ hasStartedBlowing' = hasStartedBlowing
               /\ rafPending' = rafPending
               /\ pendingInit' = pendingInit - 1
        /\ (alertShown' /\ ~alertShown) => InitDenied
        /\ pendingInit' > pendingInit => (StartClick /\ pendingInit' = pendingInit + 1)
        /\ (isListening' /\ ~isListening) => (InitGranted /\ state' = "PLAYING") ]_vars

\* C12 witness: the only init call so far has failed: the alert was shown and
\* the game sits on the start screen with an idle sensor, nothing pending
C12_Witness ==
    /\ alertShown
    /\ audioContext /\ ~isListening /\ dataArray = << >>
    /\ pendingInit = 0
    /\ state = "START" /\ ui.startScreen
    /\ rafPending = 0

\* the value the claim gives for getVolume: 0 for an idle sensor, else
\* clamp((mean - 10) / 50, 0, 1) of the bytes, v being scaled by S and
\* rounded to the nearest unit
VolumeOf(listening, buf, v) ==
    LET sum == SumBytes(buf)
        n == Len(buf)
    IN  /\ v >= 0 /\ v <= S
        /\ ~listening => v = 0
        /\ listening =>
              /\ sum <= 10 * n => v = 0
              /\ sum >= 60 * n => v = S
              /\ (10 * n < sum /\ sum < 60 * n) =>
                     /\ 50 * n * v <= (sum - 10 * n) * S + 50 * n
                     /\ 50 * n * v >= (sum - 10 * n) * S - 50 * n

\* C13: getVolume returns 0 when the sensor is not active; when it is
\* active it returns clamp((mean - 10) / 50, 0, 1) for every byte buffer:
\* a value in [0, 1], 0 for a mean <= 10 and 1 for a mean >= 60
C13_GetVolume ==
    [][ SensorRead =>
            /\ ~isListening => (volume' = 0 /\ dataArray' = dataArray)
            /\ isListening => (Len(dataArray') = 128
                                 /\ VolumeOf(TRUE, dataArray', volume')) ]_vars

\* C13 witness: an active sensor read a buffer whose bins differ and whose
\* mean lies between the noise floor and saturation
C13_Witness ==
    /\ isListening
    /\ volume # Null /\ volume > 0 /\ volume < S
    /\ dataArray[1] # dataArray[128]
    /\ dataArray[1] = 255

\* C18: a launched airplane whose wind readings are, from some frame on,
\* all at or below 0.60 comes down: with the viewport fixed, no click during
\* the run and the frame callbacks firing, PLAYING with hasStartedBlowing
\* leads to END
C18_EventualCrash ==
    [](state = "PLAYING" /\ hasStartedBlowing => <>(state = "END"))

\* C18 witness: at 800x600 a run that was blown up to the ceiling has ended
\* after a glide of more than 40 quiet frames
C18_Witness ==
    /\ state = "END"
    /\ height = 600
    /\ hasStartedBlowing
    /\ volume = 600
    /\ now > 60
    /\ distance > 0

\* the particles that are still alive after one more decay of 0.05
Outlives(p) == p.life > 50

\* C20: a physics step emits at most one particle, only when the wind force
\* is above 0.60, with life 1.0, then lowers every life by 0.05 and removes
\* the particles with life <= 0: after the step the remaining particles are
\* the survivors, in order and 0.05 older, followed by the new one at 0.95;
\* every life lies strictly between 0 and 1 and is 1 - 0.05 * age with age
\* below 20, older particles first; at most 20 particles exist, also across
\* restarts, and only a physics step changes them
C20_Particles ==
    [][ /\ (FlightFrame \/ LoopFrame) =>
               LET old == SelectSeq(particles, Outlives)
                   n == Len(particles') - Len(old)
               IN  /\ n \in { 0, 1 }
                   /\ n = 1 => /\ ui'.windBar > 600
                               /\ particles'[Len(particles')].life = S - 50
                   /\ \A i \in 1..Len(old) :
                         /\ particles'[i].life = old[i].life - 50
                         /\ particles'[i].x = old[i].x + old[i].vx
                         /\ particles'[i].y = old[i].y + old[i].vy
        /\ particles' # particles => (FlightFrame \/ LoopFrame)
        /\ Len(particles') <= 20
        /\ \A i \in 1..Len(particles') :
              /\ particles'[i].life > 0 /\ particles'[i].life < S
              /\ particles'[i].life % 50 = 0
              /\ i > 1 => particles'[i - 1].life < particles'[i].life ]_vars

\* C20 witness: a run stands ready after earlier runs have ended, and the
\* particles those runs emitted are still there: nineteen of them, the
\* oldest one step from its removal
C20_Witness ==
    /\ state = "PLAYING"
    /\ ~hasStartedBlowing
    /\ ui.finalDistance # Null
    /\ Len(particles) = 19
    /\ particles[1].life = 50
    /\ particles[19].life = S - 50

=============================================================================
